---- MODULE Spec2Model ----
(***************************************************************************)
(* Model of the pack pipeline of src/src/cli/pack.ts: packExtension and    *)
(* the pure helper sanitizeNameForFilename.                                *)
(*                                                                         *)
(* The file system, the wall clock, the interactive prompt and the         *)
(* collaborators imported from ../node/files.js, ../node/validate.js,      *)
(* ../schemas.js and ./init.js are the environment: each call is a step    *)
(* whose outcome (value returned, error thrown) is chosen                  *)
(* nondeterministically among the outcomes the call can have.  The logger  *)
(* (log / error) never throws.                                             *)
(***************************************************************************)
EXTENDS Integers, Sequences, FiniteSets, TLC

\* ------------------------------------------------------------- bounds ----
MaxRuns  == 2      \* invocations of packExtension in one behaviour
MaxClock == 2      \* wall-clock seconds that may elapse

\* -------------------------------------------------------- environment ----
Paths        == {"main.py", "dep.py"}          \* source files under the root
ManifestPath == "manifest.json"
RootKinds    == {"dir", "missing", "file", "vanishing"}
OutDirKinds  == {"exists", "absent", "blocked"}

\* finalOutputPath (lines 103-107): outside the extension root, or inside it
\* under a name that ends in .dxt (the default name when the working
\* directory is the root) or under any other name the caller gave.
OutPlaces    == {"outside", "inside-dxt", "inside-other"}
DxtName      == "ext.dxt"
OtherName    == "bundle.zip"
OutputNames  == {DxtName, OtherName}

VARIABLES
    \* the world outside the invocation
    now,            \* wall clock, in seconds
    rootKind,       \* what extensionPath resolves to
    outPlace,       \* where finalOutputPath lies, and under what name
    rootFiles,      \* the source files of the directory snapshot
    ignoreFile,     \* the paths the .dxtignore patterns match
    manifestFile,   \* manifest.json on disk: "absent", "valid" or "invalid"
    outDir,         \* the parent directory of finalOutputPath
    outFile,        \* the file at finalOutputPath
    nRuns,          \* invocations started so far
    runs,           \* what each invocation that returned true produced
    \* one invocation of packExtension
    pc,             \* control point
    manifestSeen,   \* existsSync(manifestPath) at line 63
    manifest,       \* the parsed manifest (line 94)
    patterns,       \* dxtIgnorePatterns (line 115)
    files,          \* files (line 118)
    ignoredCount,   \* ignoredCount (line 118)
    zipData,        \* zipData (line 188)
    shasum,         \* shasum (line 197)
    log,            \* the calls made on the logger, in order
    attempted,      \* steps this invocation has started
    completed,      \* steps this invocation has finished without error
    writes,         \* buffers handed to writeFileSync by this invocation
    outFile0,       \* outFile when the invocation started
    outDir0,        \* outDir when the invocation started
    \* sanitizeNameForFilename applied to a name, and to its own result
    sanPc,          \* "off", "input", "once" or "twice"
    name,           \* the manifest name
    once,           \* sanitizeNameForFilename(name)
    twice,          \* sanitizeNameForFilename(once)
    \* the "Archive Contents" listing of packExtension (lines 130-185)
    lstPc,          \* "off", "sort", "group", "shallow", "groups" or "done"
    enumerated,     \* Object.entries(files), in the order discovery gave
    fileEntries,    \* fileEntries after the sort of line 134
    idx,            \* entries the loop of line 143 has consumed
    totalUnpackedSize,  \* totalUnpackedSize (line 131)
    directoryGroups,    \* directoryGroups (line 137), in insertion order
    shallowFiles,   \* shallowFiles (line 141)
    lines,          \* the listing lines printed so far
    \* formatFileSize applied to a byte count
    fmtPc,          \* "off", "input" or "done"
    bytes,          \* the byte count
    formatted       \* formatFileSize(bytes)

world == <<now, rootKind, outPlace, rootFiles, ignoreFile, manifestFile, outDir, outFile,
           nRuns, runs>>
local == <<pc, manifestSeen, manifest, patterns, files, ignoredCount, zipData,
           shasum, log, attempted, completed, writes, outFile0, outDir0>>
san   == <<sanPc, name, once, twice>>
lst   == <<lstPc, enumerated, fileEntries, idx, totalUnpackedSize,
           directoryGroups, shallowFiles, lines>>
fmt   == <<fmtPc, bytes, formatted>>
pure  == <<san, lst, fmt>>
vars  == <<world, local, pure>>

\* ------------------------------------------------------------- values ----
NoFiles == [p \in {} |-> "none"]

\* What can be at finalOutputPath: nothing, a complete archive, or the
\* remains of a write that failed part-way.
Absent  == [kind |-> "absent",  entries |-> NoFiles, level |-> 0, mtime |-> 0]
Partial == [kind |-> "partial", entries |-> NoFiles, level |-> 0, mtime |-> 0]

\* Content of a file of the snapshot, given what manifest.json holds.
Content(p, m) ==
    IF p = ManifestPath THEN m
    ELSE IF p \in OutputNames THEN "archive" ELSE "src"

\* zipData.length: the end record of the container and the headers of its
\* entries (the compressed data is left out of the count).
ByteLength(buf) ==
    IF buf.kind = "zip" THEN 22 + 76 * Cardinality(DOMAIN buf.entries) ELSE 0

\* fflate's zipSync(files, {level, mtime}): the container holds every entry,
\* the compression level it was made with, and mtime in DOS format, which
\* has a two-second resolution.
ZipSync(fs, lvl, t) ==
    [kind |-> "zip", entries |-> fs, level |-> lvl, mtime |-> t \div 2]

\* createHash("sha1").update(buf).digest("hex"): a digest of the buffer.
Sha1(buf) == <<"sha1", buf>>

\* validateManifest(manifestPath): the gating pre-check.
ValidateManifest(content) == content = "valid"

\* readFileSync + JSON.parse + DxtManifestSchema.parse succeed.
ParseSucceeds(content) == content = "valid"

\* The files under the extension root when discovery walks it: the source
\* files and, when finalOutputPath lies inside the root, what an earlier
\* write left there.
DirectoryFiles ==
    rootFiles \cup
      (IF outFile.kind = "absent" THEN {}
       ELSE IF outPlace = "inside-dxt" THEN {DxtName}
       ELSE IF outPlace = "inside-other" THEN {OtherName}
       ELSE {})

\* The built-in exclusions of discovery.  Discovery is given the root and
\* the patterns, not finalOutputPath (lines 118-123), so it can tell an
\* archive only by its name.
BuiltinExcluded(p) == p = DxtName

\* getAllFilesWithCount(root, root, {}, patterns): the files kept.
Discovered(root, pats, m) ==
    LET kept == ({p \in root : ~BuiltinExcluded(p)} \ pats)
                  \cup (IF m = "absent" THEN {} ELSE {ManifestPath})
    IN  [p \in kept |-> Content(p, m)]

\* getAllFilesWithCount: the number of files the patterns excluded.
IgnoredCount(root, pats) == Cardinality(root \cap pats)

\* formatFileSize and the arithmetic it uses.
KB      == 1024        \* line 26

\* Faulty variant of ToFixed1: the decimal is cut, not rounded.
ToFixed1Truncating(num, den) ==
    LET n == (10 * num) \div den
    IN  <<n \div 10, ".", n % 10>>

\* (num / den).toFixed(1) for num >= 0 and den a power of two: the
\* quotient is exact in a double, and toFixed takes the n for which n / 10
\* is nearest to it, the larger n on a tie.
ToFixed1(num, den) ==
    LET n == (20 * num + den) \div (2 * den)
    IN  <<n \div 10, ".", n % 10>>

\* formatFileSize (lines 25-33).  "1023B" is <<1023, "B">>, "1.0kB" is
\* <<1, ".", 0, "kB">>.
formatFileSize(b) ==
    IF b < KB
      THEN <<b, "B">>
      ELSE IF b < KB * KB
             THEN ToFixed1(b, KB) \o <<"kB">>
             ELSE ToFixed1(b, KB * KB) \o <<"MB">>

\* --------------------------------------------------------------- Init ----
\* The listing and the size formatter at rest.
ListOff ==
    /\ lstPc = "off"
    /\ enumerated = <<>>
    /\ fileEntries = <<>>
    /\ idx = 0
    /\ totalUnpackedSize = 0
    /\ directoryGroups = <<>>
    /\ shallowFiles = <<>>
    /\ lines = <<>>

FmtOff ==
    /\ fmtPc = "off"
    /\ bytes = 0
    /\ formatted = <<>>

Init ==
    /\ now = 0
    /\ rootKind \in RootKinds
    /\ outPlace \in OutPlaces
    /\ rootFiles \in SUBSET Paths
    /\ ignoreFile \in {{}, {"dep.py"}}
    /\ manifestFile \in {"absent", "valid", "invalid"}
    /\ outDir \in OutDirKinds
    /\ outPlace # "outside" => (rootKind = "dir" /\ outDir = "exists")
    /\ outFile = Absent
    /\ nRuns = 0
    /\ runs = <<>>
    /\ pc = "idle"
    /\ manifestSeen = "unknown"
    /\ manifest = "none"
    /\ patterns = {}
    /\ files = NoFiles
    /\ ignoredCount = 0
    /\ zipData = Absent
    /\ shasum = <<>>
    /\ log = <<>>
    /\ attempted = {}
    /\ completed = {}
    /\ writes = <<>>
    /\ outFile0 = Absent
    /\ outDir0 = outDir
    /\ sanPc = "off"
    /\ name = <<>>
    /\ once = <<>>
    /\ twice = <<>>
    /\ ListOff
    /\ FmtOff

\* ------------------------------------------------------------ logging ----
Logged(level, tag) == <<level, tag>>

Emit(entries) == log' = log \o entries

\* Faulty variant of CatchErrorLines: the catch block returns false without reporting.
CatchSilent == <<>>

\* The catch block of lines 214-221: one error line, then return false.
CatchErrorLines == <<Logged("error", "archive-error")>>

CatchArchiveError(step) ==
    /\ attempted' = attempted \cup {step}
    /\ Emit(CatchErrorLines)
    /\ pc' = "failed"

Begin(step) == attempted' = attempted \cup {step}

Finish(step) ==
    /\ attempted' = attempted \cup {step}
    /\ completed' = completed \cup {step}

\* ------------------------------------------------------------ actions ----
\* A caller invokes packExtension (lines 47-53).
Start ==
    /\ pc \in {"idle", "done", "failed", "thrown"}
    /\ nRuns < MaxRuns
    /\ nRuns' = nRuns + 1
    /\ pc' = "dirCheck"
    /\ manifestSeen' = "unknown"
    /\ manifest' = "none"
    /\ patterns' = {}
    /\ files' = NoFiles
    /\ ignoredCount' = 0
    /\ zipData' = Absent
    /\ shasum' = <<>>
    /\ log' = <<>>
    /\ attempted' = {}
    /\ completed' = {}
    /\ writes' = <<>>
    /\ outFile0' = outFile
    /\ outDir0' = outDir
    /\ UNCHANGED <<pure, now, rootKind, outPlace, rootFiles, ignoreFile, manifestFile, outDir,
                   outFile, runs>>

\* Lines 55-59: existsSync(resolvedPath), statSync(resolvedPath).isDirectory().
DirCheck ==
    /\ pc = "dirCheck"
    /\ \/ /\ rootKind = "dir"
          /\ Finish("dirCheck")
          /\ pc' = "manifestCheck"
          /\ UNCHANGED log
       \/ /\ rootKind \in {"missing", "file"}
          /\ Begin("dirCheck")
          /\ Emit(<<Logged("error", "directory-not-found")>>)
          /\ pc' = "failed"
          /\ UNCHANGED completed
       \/ \* the path is removed between existsSync and statSync: statSync throws
          /\ rootKind = "vanishing"
          /\ Begin("dirCheck")
          /\ pc' = "thrown"
          /\ UNCHANGED <<log, completed>>
    /\ UNCHANGED <<pure, world, manifestSeen, manifest, patterns, files, ignoredCount,
                   zipData, shasum, writes, outFile0, outDir0>>

\* Lines 61-64: existsSync(manifestPath).
ManifestCheck ==
    /\ pc = "manifestCheck"
    /\ Finish("manifestCheck")
    /\ IF manifestFile = "absent"
         THEN /\ manifestSeen' = "no"
              /\ Emit(<<Logged("log", "no-manifest")>>)
              /\ pc' = "confirm"
         ELSE /\ manifestSeen' = "yes"
              /\ pc' = "validate"
              /\ UNCHANGED log
    /\ UNCHANGED <<pure, world, manifest, patterns, files, ignoredCount, zipData,
                   shasum, writes, outFile0, outDir0>>

\* Faulty variant of Confirm: declining reports the error but does not return.
ConfirmDeclineContinues ==
    /\ pc = "confirm"
    /\ \/ /\ Finish("confirm")
          /\ pc' = "init"
          /\ UNCHANGED log
       \/ /\ Begin("confirm")
          /\ Emit(<<Logged("error", "no-manifest")>>)
          /\ pc' = "validate"
          /\ UNCHANGED completed
       \/ /\ Begin("confirm")
          /\ pc' = "thrown"
          /\ UNCHANGED <<log, completed>>
    /\ UNCHANGED <<pure, world, manifestSeen, manifest, patterns, files,
                   ignoredCount, zipData, shasum, writes, outFile0, outDir0>>

\* Lines 65-68 and 76-79: the creation prompt.
Confirm ==
    /\ pc = "confirm"
    /\ \/ /\ Finish("confirm")               \* shouldInit = true
          /\ pc' = "init"
          /\ UNCHANGED log
       \/ /\ Begin("confirm")                \* shouldInit = false
          /\ Emit(<<Logged("error", "no-manifest")>>)
          /\ pc' = "failed"
          /\ UNCHANGED completed
       \/ /\ Begin("confirm")                \* the prompt rejects
          /\ pc' = "thrown"
          /\ UNCHANGED <<log, completed>>
    /\ UNCHANGED <<pure, world, manifestSeen, manifest, patterns, files, ignoredCount,
                   zipData, shasum, writes, outFile0, outDir0>>

\* Lines 70-75: initExtension(extensionPath).
InitExtension ==
    /\ pc = "init"
    /\ \/ /\ Finish("init")                  \* success: a manifest was written
          /\ manifestFile' \in {"valid", "invalid"}
          /\ pc' = "validate"
          /\ UNCHANGED log
       \/ /\ Begin("init")                   \* success = false
          /\ Emit(<<Logged("error", "create-failed")>>)
          /\ pc' = "failed"
          /\ UNCHANGED <<manifestFile, completed>>
       \/ /\ Begin("init")                   \* initExtension rejects
          /\ pc' = "thrown"
          /\ UNCHANGED <<manifestFile, log, completed>>
    /\ UNCHANGED <<pure, now, rootKind, outPlace, rootFiles, ignoreFile, outDir, outFile, nRuns,
                   runs, manifestSeen, manifest, patterns, files, ignoredCount,
                   zipData, shasum, writes, outFile0, outDir0>>

\* Faulty variant of Validate: a failed pre-check reports the error but does not
\* return.
ValidateNoReturn ==
    /\ pc = "validate"
    /\ IF ValidateManifest(manifestFile)
         THEN /\ Finish("validate")
              /\ Emit(<<Logged("log", "validating")>>)
         ELSE /\ Begin("validate")
              /\ Emit(<<Logged("log", "validating"),
                        Logged("error", "invalid-manifest")>>)
              /\ UNCHANGED completed
    /\ pc' = "parse"
    /\ UNCHANGED <<pure, world, manifestSeen, manifest, patterns, files,
                   ignoredCount, zipData, shasum, writes, outFile0, outDir0>>

\* Lines 82-87: the gating pre-check.
Validate ==
    /\ pc = "validate"
    /\ IF ValidateManifest(manifestFile)
         THEN /\ Finish("validate")
              /\ Emit(<<Logged("log", "validating")>>)
              /\ pc' = "parse"
         ELSE /\ Begin("validate")
              /\ Emit(<<Logged("log", "validating"),
                        Logged("error", "invalid-manifest")>>)
              /\ pc' = "failed"
              /\ UNCHANGED completed
    /\ UNCHANGED <<pure, world, manifestSeen, manifest, patterns, files, ignoredCount,
                   zipData, shasum, writes, outFile0, outDir0>>

\* Lines 89-101: read and parse manifest.json.
Parse ==
    /\ pc = "parse"
    /\ IF ParseSucceeds(manifestFile)
         THEN /\ Finish("parse")
              /\ manifest' = manifestFile
              /\ pc' = "mkdir"
              /\ UNCHANGED log
         ELSE /\ Begin("parse")
              /\ Emit(<<Logged("error", "parse-failed"),
                        Logged("error", "parse-message")>>)
              /\ pc' = "failed"
              /\ UNCHANGED <<manifest, completed>>
    /\ UNCHANGED <<pure, world, manifestSeen, patterns, files, ignoredCount, zipData,
                   shasum, writes, outFile0, outDir0>>

\* Lines 103-111: mkdirSync(outputDir, {recursive: true}), outside the try.
Mkdir ==
    /\ pc = "mkdir"
    /\ IF outDir = "blocked"
         THEN /\ Begin("mkdir")
              /\ pc' = "thrown"
              /\ UNCHANGED <<outDir, completed>>
         ELSE /\ Finish("mkdir")
              /\ outDir' = "exists"
              /\ pc' = "readIgnore"
    /\ UNCHANGED <<pure, now, rootKind, outPlace, rootFiles, ignoreFile, manifestFile, outFile,
                   nRuns, runs, manifestSeen, manifest, patterns, files,
                   ignoredCount, zipData, shasum, log, writes, outFile0, outDir0>>

\* Lines 113-115: readDxtIgnorePatterns(resolvedPath).
ReadIgnore ==
    /\ pc = "readIgnore"
    /\ \/ /\ Finish("readIgnore")
          /\ patterns' = ignoreFile
          /\ pc' = "discover"
          /\ UNCHANGED log
       \/ /\ CatchArchiveError("readIgnore")
          /\ UNCHANGED <<patterns, completed>>
    /\ UNCHANGED <<pure, world, manifestSeen, manifest, files, ignoredCount, zipData,
                   shasum, writes, outFile0, outDir0>>

\* Lines 117-123: getAllFilesWithCount.
Discover ==
    /\ pc = "discover"
    /\ \/ /\ Finish("discover")
          /\ files' = Discovered(DirectoryFiles, patterns, manifestFile)
          /\ ignoredCount' = IgnoredCount(DirectoryFiles, patterns)
          /\ pc' = "listing"
          /\ UNCHANGED log
       \/ /\ CatchArchiveError("discover")
          /\ UNCHANGED <<files, ignoredCount, completed>>
    /\ UNCHANGED <<pure, world, manifestSeen, manifest, patterns, zipData, shasum,
                   writes, outFile0, outDir0>>

\* Faulty variant of ListingLines: the "Archive Details" block is printed with the
\* listing, before the archive is built.
ListingAndDetailsLines ==
    <<Logged("log", "header"), Logged("log", "archive-contents"),
      Logged("log", "listing"), Logged("log", "archive-details"),
      Logged("log", "output")>>

\* Lines 125-185: the package header and the "Archive Contents" listing.
ListingLines ==
    <<Logged("log", "header"), Logged("log", "archive-contents"),
      Logged("log", "listing")>>

Listing ==
    /\ pc = "listing"
    /\ Finish("listing")
    /\ Emit(ListingLines)
    /\ pc' = "build"
    /\ UNCHANGED <<pure, world, manifestSeen, manifest, patterns, files, ignoredCount,
                   zipData, shasum, writes, outFile0, outDir0>>

\* Faulty variant of Build: the archive is streamed to finalOutputPath while it is
\* compressed.
BuildStreamsToDisk ==
    /\ pc = "build"
    /\ \/ /\ Finish("build")
          /\ zipData' = ZipSync(files, 9, now)
          /\ outFile' = ZipSync(files, 9, now)
          /\ pc' = "write"
          /\ UNCHANGED log
       \/ /\ attempted' = attempted \cup {"build"}
          /\ log' = log \o <<Logged("error", "archive-error")>>
          /\ pc' = "failed"
          /\ outFile' = Partial
          /\ UNCHANGED <<zipData, completed>>
    /\ UNCHANGED <<pure, now, rootKind, outPlace, rootFiles, ignoreFile, manifestFile,
                   outDir, nRuns, runs, manifestSeen, manifest, patterns, files,
                   ignoredCount, shasum, writes, outFile0, outDir0>>

\* Lines 187-191: zipSync(files, {level: 9, mtime: new Date()}).
CompressionLevel == 9

BuildTime == now

Build ==
    /\ pc = "build"
    /\ \/ /\ Finish("build")
          /\ zipData' = ZipSync(files, CompressionLevel, BuildTime)
          /\ pc' = "write"
          /\ UNCHANGED log
       \/ /\ CatchArchiveError("build")
          /\ UNCHANGED <<zipData, completed>>
    /\ UNCHANGED <<pure, world, manifestSeen, manifest, patterns, files, ignoredCount,
                   shasum, writes, outFile0, outDir0>>

\* Lines 193-194: writeFileSync(finalOutputPath, zipData).  A write that
\* fails leaves the path as it was (the open failed) or holding part of the
\* buffer (the file was opened, truncated, and the write then failed).
WriteBuffer == zipData

Write ==
    /\ pc = "write"
    /\ writes' = Append(writes, WriteBuffer)
    /\ \/ /\ Finish("write")
          /\ outFile' = WriteBuffer
          /\ pc' = "hash"
          /\ UNCHANGED log
       \/ /\ CatchArchiveError("write")
          /\ outFile' \in {outFile, Partial}
          /\ UNCHANGED completed
    /\ UNCHANGED <<pure, now, rootKind, outPlace, rootFiles, ignoreFile, manifestFile, outDir,
                   nRuns, runs, manifestSeen, manifest, patterns, files,
                   ignoredCount, zipData, shasum, outFile0, outDir0>>

\* Faulty variant of Hash: the digest is taken over the uncompressed files.
HashOfFiles ==
    /\ pc = "hash"
    /\ \/ /\ Finish("hash")
          /\ shasum' = Sha1(files)
          /\ pc' = "details"
          /\ UNCHANGED log
       \/ /\ CatchArchiveError("hash")
          /\ UNCHANGED <<shasum, completed>>
    /\ UNCHANGED <<pure, world, manifestSeen, manifest, patterns, files, ignoredCount,
                   zipData, writes, outFile0, outDir0>>

\* Lines 196-197: createHash("sha1").update(zipData).digest("hex").
Hash ==
    /\ pc = "hash"
    /\ \/ /\ Finish("hash")
          /\ shasum' = Sha1(zipData)
          /\ pc' = "details"
          /\ UNCHANGED log
       \/ /\ CatchArchiveError("hash")
          /\ UNCHANGED <<shasum, completed>>
    /\ UNCHANGED <<pure, world, manifestSeen, manifest, patterns, files, ignoredCount,
                   zipData, writes, outFile0, outDir0>>

\* Lines 199-213: the "Archive Details" block, the output path, return true.
DetailsLines ==
    <<Logged("log", "archive-details"),
      <<"log", "package-size", formatFileSize(ByteLength(zipData))>>,
      <<"log", "shasum", shasum>>,
      <<"log", "total-files", Cardinality(DOMAIN files)>>,
      <<"log", "ignored-files", ignoredCount>>,
      Logged("log", "output")>>

Details ==
    /\ pc = "details"
    /\ Finish("details")
    /\ Emit(DetailsLines)
    /\ pc' = "done"
    /\ runs' = Append(runs, [files |-> files, zipData |-> zipData,
                             shasum |-> shasum])
    /\ UNCHANGED <<pure, now, rootKind, outPlace, rootFiles, ignoreFile, manifestFile, outDir,
                   outFile, nRuns, manifestSeen, manifest, patterns, files,
                   ignoredCount, zipData, shasum, writes, outFile0, outDir0>>

\* The wall clock advances.
Tick ==
    /\ now < MaxClock
    /\ now' = now + 1
    /\ UNCHANGED <<pure, rootKind, outPlace, rootFiles, ignoreFile, manifestFile, outDir,
                   outFile, nRuns, runs, local>>

\* Another process rewrites manifest.json while the invocation runs.
ExternalManifestChange ==
    /\ pc \notin {"idle", "done", "failed", "thrown"}
    /\ manifestFile # "absent"
    /\ manifestFile' = IF manifestFile = "valid" THEN "invalid" ELSE "valid"
    /\ UNCHANGED <<pure, now, rootKind, outPlace, rootFiles, ignoreFile, outDir, outFile, nRuns,
                   runs, local>>

Next ==
    \/ Start
    \/ DirCheck
    \/ ManifestCheck
    \/ Confirm
    \/ InitExtension
    \/ Validate
    \/ Parse
    \/ Mkdir
    \/ ReadIgnore
    \/ Discover
    \/ Listing
    \/ Build
    \/ Write
    \/ Hash
    \/ Details
    \/ Tick
    \/ ExternalManifestChange

Spec == Init /\ [][Next]_vars

\* ------------------------------------------- sanitizeNameForFilename ----
\* Strings are sequences of one-character strings.
MaxNameLen == 100      \* substring(0, 100), line 44
MaxTail    == 3        \* characters that vary at the end of an input name

Lower      == {"a", "b"}
Upper      == {"B"}
Digits     == {"1"}
Whitespace == {" "}
Alphabet   == Lower \cup Upper \cup Digits \cup Whitespace \cup {"-", "_", ".", "!"}

\* String.prototype.toLowerCase, on one character.
LowerChar(c) == IF c = "B" THEN "b" ELSE c

\* .toLowerCase() (line 39)
ToLowerCase(s) == [i \in 1..Len(s) |-> LowerChar(s[i])]

Kept(c) == c # ""

\* s.replace(/X+/g, "-"): every maximal run of characters of X becomes one
\* hyphen.  The first character of a run is replaced, the others dropped.
ReplaceRuns(s, X) ==
    LET marked == [i \in 1..Len(s) |->
                     IF s[i] \in X
                       THEN IF i > 1 /\ s[i-1] \in X THEN "" ELSE "-"
                       ELSE s[i]]
    IN  SelectSeq(marked, Kept)

\* .replace(/\s+/g, "-") (line 40)
ReplaceWhitespace(s) == ReplaceRuns(s, Whitespace)

\* The characters the class [a-z0-9-_.] of line 41 holds.
IsAllowed(c) == c \in Lower \cup Digits \cup {"-", "_", "."}

\* .replace(/[^a-z0-9-_.]/g, "") (line 41)
StripDisallowed(s) == SelectSeq(s, IsAllowed)

\* .replace(/-+/g, "-") (line 42)
CollapseHyphens(s) == ReplaceRuns(s, {"-"})

\* Length of the run of hyphens s starts with / ends with.
RECURSIVE LeadingHyphens(_)
LeadingHyphens(s) ==
    IF s = <<>> \/ Head(s) # "-" THEN 0 ELSE 1 + LeadingHyphens(Tail(s))

RECURSIVE TrailingHyphens(_)
TrailingHyphens(s) ==
    IF s = <<>> \/ s[Len(s)] # "-"
      THEN 0
      ELSE 1 + TrailingHyphens(SubSeq(s, 1, Len(s) - 1))

\* .replace(/^-+|-+$/g, "") (line 43)
TrimHyphens(s) ==
    LET a == LeadingHyphens(s)
        b == TrailingHyphens(s)
    IN  IF a = Len(s) THEN <<>> ELSE SubSeq(s, a + 1, Len(s) - b)

\* .substring(0, 100) (line 44)
Substring(s, n) == SubSeq(s, 1, IF Len(s) < n THEN Len(s) ELSE n)

\* sanitizeNameForFilename (lines 35-45)
sanitizeNameForFilename(s) ==
    Substring(
      TrimHyphens(CollapseHyphens(StripDisallowed(ReplaceWhitespace(ToLowerCase(s))))),
      MaxNameLen)

\* The names tried: a run of n letters, n near the truncation limit or zero,
\* followed by every string of at most MaxTail characters of the alphabet.
Pad(n) == [i \in 1..n |-> "a"]

PadLens == {0, MaxNameLen - 2, MaxNameLen - 1, MaxNameLen}

Tails == UNION {[1..k -> Alphabet] : k \in 0..MaxTail}

NameInputs == {Pad(n) \o t : n \in PadLens, t \in Tails}

SanInit ==
    /\ now = 0
    /\ rootKind = "dir"
    /\ outPlace = "outside"
    /\ rootFiles = {}
    /\ ignoreFile = {}
    /\ manifestFile = "valid"
    /\ outDir = "exists"
    /\ outFile = Absent
    /\ nRuns = 0
    /\ runs = <<>>
    /\ pc = "idle"
    /\ manifestSeen = "unknown"
    /\ manifest = "none"
    /\ patterns = {}
    /\ files = NoFiles
    /\ ignoredCount = 0
    /\ zipData = Absent
    /\ shasum = <<>>
    /\ log = <<>>
    /\ attempted = {}
    /\ completed = {}
    /\ writes = <<>>
    /\ outFile0 = Absent
    /\ outDir0 = "exists"
    /\ sanPc = "input"
    /\ name \in NameInputs
    /\ once = <<>>
    /\ twice = <<>>
    /\ ListOff
    /\ FmtOff

\* sanitizeNameForFilename(manifest.name), as at line 200.
SanitizeName ==
    /\ sanPc = "input"
    /\ once' = sanitizeNameForFilename(name)
    /\ sanPc' = "once"
    /\ UNCHANGED <<world, local, lst, fmt, name, twice>>

\* The sanitizer applied to its own result.
SanitizeAgain ==
    /\ sanPc = "once"
    /\ twice' = sanitizeNameForFilename(once)
    /\ sanPc' = "twice"
    /\ UNCHANGED <<world, local, lst, fmt, name, once>>

SanNext ==
    \/ SanitizeName
    \/ SanitizeAgain

SanSpec == SanInit /\ [][SanNext]_vars

\* ---------------------------------------------- the pipeline at rest ----
\* packExtension is not running, and nothing has been written.
PackOff ==
    /\ now = 0
    /\ rootKind = "dir"
    /\ outPlace = "outside"
    /\ rootFiles = {}
    /\ ignoreFile = {}
    /\ manifestFile = "valid"
    /\ outDir = "exists"
    /\ outFile = Absent
    /\ nRuns = 0
    /\ runs = <<>>
    /\ pc = "idle"
    /\ manifestSeen = "unknown"
    /\ manifest = "none"
    /\ patterns = {}
    /\ files = NoFiles
    /\ ignoredCount = 0
    /\ zipData = Absent
    /\ shasum = <<>>
    /\ log = <<>>
    /\ attempted = {}
    /\ completed = {}
    /\ writes = <<>>
    /\ outFile0 = Absent
    /\ outDir0 = "exists"

SanOff ==
    /\ sanPc = "off"
    /\ name = <<>>
    /\ once = <<>>
    /\ twice = <<>>

\* ----------------------------------------------------- formatFileSize ----
FmtSpan == 40          \* byte counts tried on each side of a boundary

\* The byte counts tried: around zero and around each unit boundary, and
\* counts whose quotient lies exactly between two tenths or far from both
\* boundaries.
SizeInputs ==
    (0..FmtSpan)
    \cup ((KB - FmtSpan)..(KB + FmtSpan))
    \cup ((KB * KB - FmtSpan)..(KB * KB + FmtSpan))
    \cup {1280, 1536, 2000, 10 * KB + 512, 500 * KB, 1000 * KB + 999}
    \cup {KB * KB + 52429, 5 * KB * KB + 512 * KB, 3 * KB * KB + 256 * KB * 3,
          100 * KB * KB + 1}

FmtInit ==
    /\ PackOff
    /\ SanOff
    /\ ListOff
    /\ fmtPc = "input"
    /\ bytes \in SizeInputs
    /\ formatted = <<>>

\* formatFileSize(bytes), as at lines 169, 178, 182, 206 and 207.
FormatSize ==
    /\ fmtPc = "input"
    /\ formatted' = formatFileSize(bytes)
    /\ fmtPc' = "done"
    /\ UNCHANGED <<world, local, san, lst, bytes>>

FmtNext == FormatSize

FmtSpec == FmtInit /\ [][FmtNext]_vars

\* ------------------------------------- the "Archive Contents" listing ----
\* A path is the sequence of its segments; every segment is one letter, so
\* comparing two paths segment by segment is comparing their strings.
MaxFiles   == 4        \* files in the discovered set
GroupDepth == 3        \* lines 153 and 155

Letters == <<"a", "b", "c", "d", "e", "f", "g", "h", "i">>

\* The files a discovered set is drawn from: path and content length.
FileUniverse ==
    { [path |-> <<"a", "b", "c", "d">>,      size |-> 1],
      [path |-> <<"a", "b", "c", "e">>,      size |-> 2],
      [path |-> <<"a", "b", "f">>,           size |-> 4],
      [path |-> <<"a", "b", "g", "h", "i">>, size |-> 8],
      [path |-> <<"a", "c", "d", "e">>,      size |-> 16],
      [path |-> <<"b">>,                     size |-> 32] }

Range(f) == {f[i] : i \in DOMAIN f}

\* Object.entries(files): the entries of a file set, in any order.
Enumerations ==
    {e \in UNION {[1..k -> FileUniverse] : k \in 0..MaxFiles} :
        \A i, j \in DOMAIN e : i # j => e[i] # e[j]}

Rank(c) == CHOOSE i \in DOMAIN Letters : Letters[i] = c

\* a.localeCompare(b) < 0 for two paths.
PathLess(p, q) ==
    \E k \in 1..(Len(p) + 1) :
        /\ k <= Len(q)
        /\ \A i \in 1..(k - 1) : p[i] = q[i]
        /\ k <= Len(p) => Rank(p[k]) < Rank(q[k])

\* Faulty variant of SortEntries: the entries are left in enumeration order.
SortEntriesSkipped(es) == es

\* fileEntries.sort(([a], [b]) => a.localeCompare(b)) (line 134)
SortEntries(es) ==
    [i \in DOMAIN es |->
        CHOOSE e \in Range(es) :
            Cardinality({f \in Range(es) : PathLess(f.path, e.path)}) = i - 1]

\* Faulty variant of IsDeep: parts.length > 4.
IsDeepFromFive(parts) == Len(parts) > GroupDepth + 1

\* parts.length > 3 (line 153)
IsDeep(parts) == Len(parts) > GroupDepth

\* parts.slice(0, 3).join("/") (line 155)
GroupKey(parts) == SubSeq(parts, 1, GroupDepth)

\* Faulty variant of AddToGroup: totalSize is overwritten, not added to.
AddToGroupOverwriting(groups, key, path, size) ==
    LET known == \E i \in DOMAIN groups : groups[i].key = key
        all   == IF known
                   THEN groups
                   ELSE Append(groups, [key |-> key, files |-> <<>>, totalSize |-> 0])
    IN  [i \in DOMAIN all |->
            IF all[i].key = key
              THEN [all[i] EXCEPT !.files = Append(@, path), !.totalSize = size]
              ELSE all[i]]

\* Lines 156-161: the group of key, created when new, takes the file.
AddToGroup(groups, key, path, size) ==
    LET known == \E i \in DOMAIN groups : groups[i].key = key
        all   == IF known
                   THEN groups
                   ELSE Append(groups, [key |-> key, files |-> <<>>, totalSize |-> 0])
    IN  [i \in DOMAIN all |->
            IF all[i].key = key
              THEN [all[i] EXCEPT !.files = Append(@, path), !.totalSize = @ + size]
              ELSE all[i]]

\* A line of the listing: what it names, the size it shows, the number of
\* files it stands for.
FileLine(path, size) ==
    [kind |-> "file", path |-> path, size |-> size, count |-> 1,
     text |-> formatFileSize(size)]

\* Lines 174-184: a group of one file is printed as that file, a larger
\* group as "<dir>/ [and N more files]" with N the number of its files.
GroupLine(g) ==
    IF Len(g.files) = 1
      THEN FileLine(g.files[1], g.totalSize)
      ELSE [kind |-> "group", path |-> g.key, size |-> g.totalSize,
            count |-> Len(g.files), text |-> formatFileSize(g.totalSize)]

ListInit ==
    /\ PackOff
    /\ SanOff
    /\ FmtOff
    /\ lstPc = "sort"
    /\ enumerated \in Enumerations
    /\ fileEntries = <<>>
    /\ idx = 0
    /\ totalUnpackedSize = 0
    /\ directoryGroups = <<>>
    /\ shallowFiles = <<>>
    /\ lines = <<>>

\* Lines 130-134: Object.entries(files), then the sort.
SortFiles ==
    /\ lstPc = "sort"
    /\ fileEntries' = SortEntries(enumerated)
    /\ lstPc' = "group"
    /\ UNCHANGED <<world, local, san, fmt, enumerated, idx, totalUnpackedSize,
                   directoryGroups, shallowFiles, lines>>

\* Lines 143-165: one iteration of the grouping loop.
GroupFile ==
    /\ lstPc = "group"
    /\ idx < Len(fileEntries)
    /\ LET entry == fileEntries[idx + 1]
           parts == entry.path
           size  == entry.size
       IN  /\ totalUnpackedSize' = totalUnpackedSize + size
           /\ IF IsDeep(parts)
                THEN /\ directoryGroups' =
                          AddToGroup(directoryGroups, GroupKey(parts), parts, size)
                     /\ UNCHANGED shallowFiles
                ELSE /\ shallowFiles' =
                          Append(shallowFiles, [path |-> parts, size |-> size])
                     /\ UNCHANGED directoryGroups
    /\ idx' = idx + 1
    /\ UNCHANGED <<world, local, san, fmt, lstPc, enumerated, fileEntries, lines>>

\* Lines 167-170: the shallow files are printed first.
PrintShallow ==
    /\ lstPc = "group"
    /\ idx = Len(fileEntries)
    /\ lines' = lines \o [i \in DOMAIN shallowFiles |->
                             FileLine(shallowFiles[i].path, shallowFiles[i].size)]
    /\ lstPc' = "groups"
    /\ UNCHANGED <<world, local, san, fmt, enumerated, fileEntries, idx,
                   totalUnpackedSize, directoryGroups, shallowFiles>>

\* Lines 172-185: then the groups, in the order they were created.
PrintGroups ==
    /\ lstPc = "groups"
    /\ lines' = lines \o [i \in DOMAIN directoryGroups |->
                             GroupLine(directoryGroups[i])]
    /\ lstPc' = "done"
    /\ UNCHANGED <<world, local, san, fmt, enumerated, fileEntries, idx,
                   totalUnpackedSize, directoryGroups, shallowFiles>>

ListNext ==
    \/ SortFiles
    \/ GroupFile
    \/ PrintShallow
    \/ PrintGroups

ListSpec == ListInit /\ [][ListNext]_vars

\* ============================================================= claims ====
Returned(b)  == pc = (IF b THEN "done" ELSE "failed")
FailedIn(step) == step \in attempted \ completed
LogTags      == {log[i][2] : i \in {j \in DOMAIN log : log[j][1] = "log"}}
ErrorCount   == Cardinality({i \in DOMAIN log : log[i][1] = "error"})
LaterSteps   == {"mkdir", "readIgnore", "discover", "listing", "build",
                 "write", "hash", "details"}

\* C1: whenever packExtension has returned false, whatever step failed, the
\* file at the output path is what it was when the invocation started: the
\* invocation has left no new or modified archive there.
C1_FailedLeavesNoOutput == Returned(FALSE) => outFile = outFile0

\* C2: any two invocations that returned true after discovering the same
\* files (same snapshot, ignore file and manifest) produced the same archive
\* bytes and the same content hash, whatever the time they ran at.
C2_Deterministic ==
    \A i, j \in DOMAIN runs :
        runs[i].files = runs[j].files =>
            /\ runs[i].zipData = runs[j].zipData
            /\ runs[i].shasum = runs[j].shasum

\* C3: when the pre-check validateManifest returns false or the read-and-parse
\* of the manifest throws, packExtension returns false and has done none of
\* the later steps: no output directory creation, no ignore-file read, no
\* discovery, no build and no write.
C3_ManifestGate ==
    (FailedIn("validate") \/ FailedIn("parse")) =>
        /\ Returned(FALSE)
        /\ attempted \cap LaterSteps = {}
        /\ outDir = outDir0
        /\ outFile = outFile0
        /\ files = NoFiles
        /\ zipData = Absent
        /\ writes = <<>>

C3_Witness ==
    /\ Returned(FALSE)
    /\ FailedIn("validate")
    /\ outDir = "absent"

\* C4: no invocation of packExtension ends with an error propagated to the
\* caller (a rejected promise): every error is turned into a false result.
C4_NeverRejects == pc # "thrown"

\* C5: an invocation hands the archive to writeFileSync at most once; it does
\* so only after discovery and the build have completed, with the complete
\* buffer zipSync made of the whole discovered file set; the output path is
\* untouched until then, and holds exactly that buffer once the write has
\* completed.
C5_AtomicSingleWrite ==
    /\ Len(writes) <= 1
    /\ "write" \in attempted <=> Len(writes) = 1
    /\ "write" \notin attempted => outFile = outFile0
    /\ "write" \in attempted =>
          /\ {"discover", "build"} \subseteq completed
          /\ zipData.kind = "zip"
          /\ zipData.entries = files
          /\ writes[1] = zipData
    /\ "write" \in completed => outFile = zipData

C5_Witness ==
    /\ "write" \in completed
    /\ Cardinality(DOMAIN files) >= 2
    /\ outFile0 # outFile

\* C6 as stated: every piece of report output (header, "Archive Contents"
\* listing, "Archive Details" block, output path) is emitted only after the
\* build has completed, and the build starts only after discovery has
\* completed; an invocation whose build fails has emitted no report output.
ReportTags == {"header", "archive-contents", "listing", "archive-details",
               "output"}

C6_ReportOnlyAfterBuild ==
    /\ "build" \in attempted => "discover" \in completed
    /\ LogTags \cap ReportTags # {} => "build" \in completed
    /\ FailedIn("build") => LogTags \cap ReportTags = {}

\* C6 as amended: the build starts only after discovery has completed and
\* after the header and the "Archive Contents" listing have been emitted;
\* the header and the listing are emitted only after discovery has
\* completed; the "Archive Details" block and the output path are emitted
\* only after the build and the write have completed.  An invocation whose
\* build fails has emitted the header and the listing, and neither the
\* "Archive Details" block nor the output path.
C6_DiscoverListBuildDetails ==
    /\ "build" \in attempted =>
          /\ "discover" \in completed
          /\ {"header", "archive-contents", "listing"} \subseteq LogTags
    /\ LogTags \cap {"header", "archive-contents", "listing"} # {} =>
          "discover" \in completed
    /\ LogTags \cap {"archive-details", "output"} # {} =>
          {"build", "write"} \subseteq completed
    /\ FailedIn("build") =>
          LogTags \cap ReportTags = {"header", "archive-contents", "listing"}

C6_Witness ==
    /\ Returned(FALSE)
    /\ FailedIn("build")
    /\ "listing" \in LogTags

\* C7: when the extension path is missing or is not a directory, or the
\* manifest is absent and creation is declined or initExtension reports
\* failure, packExtension returns false without validation, discovery, build
\* or write; the prompt is issued only when manifest.json was found absent;
\* after a successful creation the pipeline goes on to manifest validation.
C7_ConfigErrorsHalt ==
    /\ (rootKind \in {"missing", "file"} /\ "dirCheck" \in attempted) =>
          /\ Returned(FALSE)
          /\ attempted = {"dirCheck"}
    /\ ((FailedIn("confirm") \/ FailedIn("init")) /\ pc # "thrown") =>
          /\ Returned(FALSE)
          /\ attempted \cap ({"validate", "parse"} \cup LaterSteps) = {}
          /\ files = NoFiles
          /\ outFile = outFile0
    /\ "confirm" \in attempted => manifestSeen = "no"
    /\ pc = "confirm" => manifestFile = "absent"
    /\ "init" \in completed => (pc = "validate" \/ "validate" \in attempted)

C7_Witness ==
    /\ Returned(FALSE)
    /\ FailedIn("init")
    /\ manifestFile = "absent"

\* C8: whenever packExtension has returned false it has made at least one
\* call of the logger's error operation in that invocation, and whenever it
\* has returned true it has made none.
C8_DiagnosticsPrecedeFailure ==
    /\ Returned(FALSE) => ErrorCount >= 1
    /\ Returned(TRUE) => ErrorCount = 0

C8_Witness ==
    /\ Returned(FALSE)
    /\ FailedIn("discover")
    /\ ErrorCount = 1

\* ---------------------------------------- claims about the sanitizer ----
\* C9: sanitizing the result of the sanitizer gives that result again, for
\* every name, also one longer than the truncation limit.
C9_Idempotent == sanPc = "twice" => twice = once

\* C10: the result of the sanitizer has at most 100 characters, all among
\* a-z, 0-9, '-', '_' and '.', holds no two hyphens in a row, and neither
\* starts nor ends with a hyphen.
C10_OutputShape ==
    sanPc \in {"once", "twice"} =>
        /\ Len(once) <= MaxNameLen
        /\ \A i \in DOMAIN once : IsAllowed(once[i])
        /\ \A i \in 1..(Len(once) - 1) : ~(once[i] = "-" /\ once[i+1] = "-")
        /\ once # <<>> => (once[1] # "-" /\ once[Len(once)] # "-")

\* ------------------------------------ claims about formatFileSize ----
\* The number a formatted size shows, in tenths of its unit.
ShownTenths(f) == 10 * f[1] + f[3]

\* f shows, with one decimal and unit u, the tenth nearest to b / den.
ShowsRounded(f, b, den, u) ==
    /\ Len(f) = 4
    /\ f[2] = "."
    /\ f[3] \in 0..9
    /\ f[4] = u
    /\ 2 * (10 * b - den * ShownTenths(f)) <= den
    /\ 2 * (den * ShownTenths(f) - 10 * b) <= den

\* C13: formatFileSize(b) is b followed by "B" when b < 1024, b / 1024
\* rounded to one decimal followed by "kB" when 1024 <= b < 1024 * 1024, and
\* b / (1024 * 1024) rounded to one decimal followed by "MB" otherwise;
\* 1023 -> "1023B", 1024 -> "1.0kB", 1048575 -> "1024.0kB", 1048576 -> "1.0MB".
C13_SizeFormat ==
    fmtPc = "done" =>
        /\ bytes < 1024 => formatted = <<bytes, "B">>
        /\ (1024 <= bytes /\ bytes < 1048576) =>
              ShowsRounded(formatted, bytes, 1024, "kB")
        /\ bytes >= 1048576 => ShowsRounded(formatted, bytes, 1048576, "MB")
        /\ bytes = 1023 => formatted = <<1023, "B">>
        /\ bytes = 1024 => formatted = <<1, ".", 0, "kB">>
        /\ bytes = 1048575 => formatted = <<1024, ".", 0, "kB">>
        /\ bytes = 1048576 => formatted = <<1, ".", 0, "MB">>

C13_Witness ==
    /\ fmtPc = "done"
    /\ bytes = 1048575
    /\ formatted = <<1024, ".", 0, "kB">>

\* ---------------------------------------- claims about the listing ----
RECURSIVE SeqSum(_)
SeqSum(ns) == IF ns = <<>> THEN 0 ELSE Head(ns) + SeqSum(Tail(ns))

RECURSIVE SizeSum(_)
SizeSum(F) ==
    IF F = {} THEN 0
    ELSE LET f == CHOOSE x \in F : TRUE IN f.size + SizeSum(F \ {f})

\* The discovered file set, its files of more than 3 segments, the keys of
\* their first 3 segments, and the files under a key.
FileSet        == Range(enumerated)
DeepFiles      == {f \in FileSet : Len(f.path) > 3}
Prefix3(path)  == SubSeq(path, 1, IF Len(path) < 3 THEN Len(path) ELSE 3)
Members(key)   == {f \in DeepFiles : Prefix3(f.path) = key}
HasLine(k, path, size, count) ==
    \E i \in DOMAIN lines :
        /\ lines[i].kind = k
        /\ lines[i].path = path
        /\ lines[i].size = size
        /\ lines[i].count = count

\* C11 as stated: every file of more than 3 segments is reported inside a
\* group entry keyed by its first 3 segments that shows the group's aggregate
\* size and file count, also when the group holds that file alone; every file
\* of 3 or fewer segments is reported on its own line with its own size.
C11_DeepFilesInGroupEntries ==
    lstPc = "done" =>
        \A f \in FileSet :
            IF Len(f.path) > 3
              THEN HasLine("group", Prefix3(f.path),
                           SizeSum(Members(Prefix3(f.path))),
                           Cardinality(Members(Prefix3(f.path))))
              ELSE HasLine("file", f.path, f.size, 1)

\* C11 as amended: a file of more than 3 segments whose first 3 segments are
\* shared by another discovered file is reported inside one group entry for
\* that key, showing the group's aggregate size and file count, and has no
\* line of its own; a file of more than 3 segments that is alone under its
\* key is reported on its own line, with its full path and its own size, and
\* no group entry is printed for the key; a file of 3 or fewer segments is
\* reported on its own line with its own size.
C11_GroupsOfTwoOrMore ==
    lstPc = "done" =>
        \A f \in FileSet :
            LET key == Prefix3(f.path)
            IN  IF Len(f.path) > 3 /\ Cardinality(Members(key)) >= 2
                  THEN /\ HasLine("group", key, SizeSum(Members(key)),
                                  Cardinality(Members(key)))
                       /\ ~\E i \in DOMAIN lines : lines[i].path = f.path
                  ELSE /\ HasLine("file", f.path, f.size, 1)
                       /\ ~\E i \in DOMAIN lines :
                              lines[i].kind = "group" /\ lines[i].path = key

C11_Witness ==
    /\ lstPc = "done"
    /\ \E f \in DeepFiles : Cardinality(Members(Prefix3(f.path))) = 1
    /\ \E f \in DeepFiles : Cardinality(Members(Prefix3(f.path))) = 2
    /\ \E f \in FileSet : Len(f.path) = 3

LoopEnded == lstPc \in {"groups", "done"}

Places(path) ==
    Cardinality({i \in DOMAIN shallowFiles : shallowFiles[i].path = path})
    + SeqSum([g \in DOMAIN directoryGroups |->
                Cardinality({i \in DOMAIN directoryGroups[g].files :
                                directoryGroups[g].files[i] = path})])

C17_AccountingConserved ==
    LoopEnded =>
        /\ \A f \in FileSet : Places(f.path) = 1
        /\ SeqSum([i \in DOMAIN shallowFiles |-> shallowFiles[i].size])
             + SeqSum([g \in DOMAIN directoryGroups |-> directoryGroups[g].totalSize])
             = totalUnpackedSize
        /\ totalUnpackedSize = SizeSum(FileSet)
        /\ Len(shallowFiles)
             + SeqSum([g \in DOMAIN directoryGroups |-> Len(directoryGroups[g].files)])
             = Len(fileEntries)
        /\ Len(fileEntries) = Cardinality(FileSet)
        /\ lstPc = "done" =>
              /\ SeqSum([i \in DOMAIN lines |-> lines[i].size]) = totalUnpackedSize
              /\ SeqSum([i \in DOMAIN lines |-> lines[i].count]) = Len(fileEntries)

C17_Witness ==
    /\ lstPc = "done"
    /\ Len(shallowFiles) >= 1
    /\ \E g \in DOMAIN directoryGroups : Len(directoryGroups[g].files) >= 2
    /\ \E g \in DOMAIN directoryGroups : Len(directoryGroups[g].files) = 1

\* ------------------------------- further claims about packExtension ----
\* The values the "Archive Details" block reported under a label.
Reported(tag) ==
    {log[i][3] : i \in {j \in DOMAIN log : Len(log[j]) = 3 /\ log[j][2] = tag}}

\* C14: whenever packExtension has returned true, the shasum it reported is
\* the digest of the buffer that was written to the output path and is now
\* the file there, the package size it reported is the length of that
\* buffer, and the buffer is the compressed archive of the discovered files,
\* not their uncompressed contents.
C14_HashOfWrittenBytes ==
    Returned(TRUE) =>
        /\ writes = <<outFile>>
        /\ outFile.kind = "zip"
        /\ outFile.entries = files
        /\ Reported("shasum") = {Sha1(outFile)}
        /\ Reported("package-size") = {formatFileSize(ByteLength(outFile))}

C14_Witness ==
    /\ Returned(TRUE)
    /\ Cardinality(DOMAIN files) >= 2
    /\ Reported("shasum") # {}

\* C15: in every invocation in which the pre-check validateManifest passed,
\* the read-and-parse of the manifest succeeds too, also when another process
\* changes manifest.json during the invocation.
C15_PrecheckImpliesParse == "validate" \in completed => ~FailedIn("parse")

\* C16: after any sequence of invocations that all returned true, wherever
\* the output path lies and whatever its name, no invocation has discovered
\* and archived the file an earlier one wrote: every archive has the entry
\* set of the first.
C16_OwnOutputNeverPackaged ==
    (nRuns >= 1 /\ Len(runs) = nRuns) =>
        \A i \in DOMAIN runs :
            /\ OutputNames \cap DOMAIN runs[i].files = {}
            /\ DOMAIN runs[i].files = DOMAIN runs[1].files

\* C18: when packExtension has returned false because discovery or the
\* build failed, it has created no directory and no file: the parent
\* directory of the output path and the output path are as they were when
\* the invocation started.
C18_FailureCreatesNothing ==
    (Returned(FALSE) /\ (FailedIn("discover") \/ FailedIn("build"))) =>
        /\ outDir = outDir0
        /\ outFile = outFile0

====
